---- MODULE Spec2Model ----
(***************************************************************************)
(* Model of the two DSPy applications of the repository:                   *)
(*   ResumeAnalyzer.py               (ResumeAnalyzer.forward, main)        *)
(*   movieReviewandRecommendation.py (AdvancedMovieReviewer.forward, main) *)
(* and of the response-normalising helpers they share in shape             *)
(* (_parse_score, _parse_rating, _format_list, _format_genres,             *)
(* _rate_quality).                                                         *)
(*                                                                         *)
(* A Python str is the sequence of its code points.  A number is an exact  *)
(* decimal [num, exp] worth num / 10^exp.  A dict built key by key is a    *)
(* sequence of [key, val] records in insertion order; a dict literal with  *)
(* fixed keys is a record, and {} is the empty function <<>>.  The         *)
(* language model behind every dspy.ChainOfThought predictor is an oracle: *)
(* each call either raises or returns one of a few responses.              *)
(***************************************************************************)
EXTENDS Integers, Sequences, FiniteSets, TLC

VARIABLES
    app,              \* which script runs: "resume" or "movie"
    doc,              \* the text area's content (resume_text / review)
    pc,               \* position of the script
    calls,            \* every predictor call issued so far, with its outcome
    section_list,     \* ResumeAnalyzer.forward: local section_list
    idx,              \* ResumeAnalyzer.forward: number of loop iterations begun
    section_analyses, \* ResumeAnalyzer.forward: local section_analyses
    m_locals,         \* AdvancedMovieReviewer.forward: locals analysis, genres
    result,           \* value returned by forward
    ui,               \* the st.warning and st.error calls made, in order
    nfun,             \* normaliser under test
    ntext,            \* its input text
    nstate,           \* "input" before it is applied, "done" after
    nscore,           \* float returned by _parse_score / _parse_rating
    nlist             \* list returned by _format_list

vars == <<app, doc, pc, calls, section_list, idx, section_analyses, m_locals,
          result, ui, nfun, ntext, nstate, nscore, nlist>>

orchVars == <<app, doc, pc, calls, section_list, idx, section_analyses,
              m_locals, result, ui>>
normVars == <<nfun, ntext, nstate, nscore, nlist>>

----------------------------------------------------------------------------
(* Bounds of the model *)

MaxSecLen == 5      \* longest "sections" string the oracle returns
MaxScoreLen == 4    \* longest text given to _parse_score / _parse_rating
MaxListLen == 5     \* longest text given to _format_list

(* Program constants *)

MinWords == 50      \* main: len(resume_text.split()) < 50
ScoreMin == 1       \* _parse_score: max(1, ...)
RatingMin == 0      \* _parse_rating: max(0, ...)
ScoreMax == 10      \* _parse_score, _parse_rating: min(10, ...)
FallbackScore == 5  \* the literal 5.0 returned when nothing matches

----------------------------------------------------------------------------
(* Python str: a str is the sequence of its code points.  The character   *)
(* tables below are those of the interpreter's Unicode database (14.0.0).  *)

\* the printable ASCII characters, from " " (32) to "~" (126)
AsciiLow ==
    <<" ", "!", "\"", "#", "$", "%", "&", "'", "(", ")", "*", "+", ",", "-",
      ".", "/", "0", "1", "2", "3", "4", "5", "6", "7", "8", "9", ":", ";",
      "<", "=", ">", "?", "@", "A", "B", "C", "D", "E", "F", "G", "H", "I",
      "J", "K", "L", "M", "N", "O", "P", "Q", "R", "S", "T", "U", "V", "W",
      "X", "Y", "Z", "[", "\\", "]", "^", "_">>

AsciiHigh ==
    <<"a", "b", "c", "d", "e", "f", "g", "h", "i", "j", "k", "l", "m", "n",
      "o", "p", "q", "r", "s", "t", "u", "v", "w", "x", "y", "z", "{", "|",
      "}", "~">>

\* ord(ch) of a printable ASCII character other than the grave accent
Ord(ch) ==
    IF \E i \in 1..Len(AsciiLow) : AsciiLow[i] = ch
    THEN 31 + CHOOSE i \in 1..Len(AsciiLow) : AsciiLow[i] = ch
    ELSE 96 + CHOOSE i \in 1..Len(AsciiHigh) : AsciiHigh[i] = ch

\* the str spelled by a tuple of printable ASCII characters
Str(chars) == [i \in 1..Len(chars) |-> Ord(chars[i])]

\* the digit zero of every block of decimal digits (category Nd); the ten
\* digits of a block are consecutive
DigitZeros ==
  { 48, 1632, 1776, 1984, 2406, 2534, 2662, 2790, 2918, 3046, 3174, 3302,
    3430, 3558, 3664, 3792, 3872, 4160, 4240, 6112, 6160, 6470, 6608, 6784,
    6800, 6992, 7088, 7232, 7248, 42528, 43216, 43264, 43472, 43504, 43600,
    44016, 65296, 66720, 68912, 69734, 69872, 69942, 70096, 70384, 70736,
    70864, 71248, 71360, 71472, 71904, 72016, 72784, 73040, 73120, 92768,
    92864, 93008, 120782, 120792, 120802, 120812, 120822, 123200, 123632,
    125264, 130032 }

\* the characters \d matches and float() and int() read as digits
Digits == UNION {z..(z + 9) : z \in DigitZeros}

DigitVal(c) == c - (CHOOSE z \in DigitZeros : z <= c /\ c <= z + 9)

\* the characters str.isspace() holds of: strip() and split() remove them
Whitespace ==
  { 9, 10, 11, 12, 13, 28, 29, 30, 31, 32, 133, 160, 5760, 8192, 8193,
    8194, 8195, 8196, 8197, 8198, 8199, 8200, 8201, 8202, 8232, 8233, 8239,
    8287, 12288 }

IsSpace(c) == c \in Whitespace

InRanges(c, ranges) == \E r \in ranges : r[1] <= c /\ c <= r[2]

\* the cased characters, as ranges <<first, last>>
CasedRanges ==
  { <<65,90>>, <<97,122>>, <<170,170>>, <<181,181>>, <<186,186>>,
    <<192,214>>, <<216,246>>, <<248,442>>, <<444,447>>, <<452,659>>,
    <<661,696>>, <<704,705>>, <<736,740>>, <<837,837>>, <<880,883>>,
    <<886,887>>, <<890,893>>, <<895,895>>, <<902,902>>, <<904,906>>,
    <<908,908>>, <<910,929>>, <<931,1013>>, <<1015,1153>>, <<1162,1327>>,
    <<1329,1366>>, <<1376,1416>>, <<4256,4293>>, <<4295,4295>>,
    <<4301,4301>>, <<4304,4346>>, <<4349,4351>>, <<5024,5109>>,
    <<5112,5117>>, <<7296,7304>>, <<7312,7354>>, <<7357,7359>>,
    <<7424,7615>>, <<7680,7957>>, <<7960,7965>>, <<7968,8005>>,
    <<8008,8013>>, <<8016,8023>>, <<8025,8025>>, <<8027,8027>>,
    <<8029,8029>>, <<8031,8061>>, <<8064,8116>>, <<8118,8124>>,
    <<8126,8126>>, <<8130,8132>>, <<8134,8140>>, <<8144,8147>>,
    <<8150,8155>>, <<8160,8172>>, <<8178,8180>>, <<8182,8188>>,
    <<8305,8305>>, <<8319,8319>>, <<8336,8348>>, <<8450,8450>>,
    <<8455,8455>>, <<8458,8467>>, <<8469,8469>>, <<8473,8477>>,
    <<8484,8484>>, <<8486,8486>>, <<8488,8488>>, <<8490,8493>>,
    <<8495,8500>>, <<8505,8505>>, <<8508,8511>>, <<8517,8521>>,
    <<8526,8526>>, <<8544,8575>>, <<8579,8580>>, <<9398,9449>>,
    <<11264,11492>>, <<11499,11502>>, <<11506,11507>>, <<11520,11557>>,
    <<11559,11559>>, <<11565,11565>>, <<42560,42605>>, <<42624,42653>>,
    <<42786,42887>>, <<42891,42894>>, <<42896,42954>>, <<42960,42961>>,
    <<42963,42963>>, <<42965,42969>>, <<42997,42998>>, <<43000,43002>>,
    <<43824,43866>>, <<43868,43880>>, <<43888,43967>>, <<64256,64262>>,
    <<64275,64279>>, <<65313,65338>>, <<65345,65370>>, <<66560,66639>>,
    <<66736,66771>>, <<66776,66811>>, <<66928,66938>>, <<66940,66954>>,
    <<66956,66962>>, <<66964,66965>>, <<66967,66977>>, <<66979,66993>>,
    <<66995,67001>>, <<67003,67004>>, <<67456,67456>>, <<67459,67461>>,
    <<67463,67504>>, <<67506,67514>>, <<68736,68786>>, <<68800,68850>>,
    <<71840,71903>>, <<93760,93823>>, <<119808,119892>>, <<119894,119964>>,
    <<119966,119967>>, <<119970,119970>>, <<119973,119974>>,
    <<119977,119980>>, <<119982,119993>>, <<119995,119995>>,
    <<119997,120003>>, <<120005,120069>>, <<120071,120074>>,
    <<120077,120084>>, <<120086,120092>>, <<120094,120121>>,
    <<120123,120126>>, <<120128,120132>>, <<120134,120134>>,
    <<120138,120144>>, <<120146,120485>>, <<120488,120512>>,
    <<120514,120538>>, <<120540,120570>>, <<120572,120596>>,
    <<120598,120628>>, <<120630,120654>>, <<120656,120686>>,
    <<120688,120712>>, <<120714,120744>>, <<120746,120770>>,
    <<120772,120779>>, <<122624,122633>>, <<122635,122654>>,
    <<125184,125251>>, <<127280,127305>>, <<127312,127337>>,
    <<127344,127369>> }

IsCased(c) == InRanges(c, CasedRanges)

\* the case-ignorable characters, as ranges <<first, last>>
CaseIgnorableRanges ==
  { <<39,39>>, <<46,46>>, <<58,58>>, <<94,94>>, <<96,96>>, <<168,168>>,
    <<173,173>>, <<175,175>>, <<180,180>>, <<183,184>>, <<688,879>>,
    <<884,885>>, <<890,890>>, <<900,901>>, <<903,903>>, <<1155,1161>>,
    <<1369,1369>>, <<1375,1375>>, <<1425,1469>>, <<1471,1471>>,
    <<1473,1474>>, <<1476,1477>>, <<1479,1479>>, <<1524,1524>>,
    <<1536,1541>>, <<1552,1562>>, <<1564,1564>>, <<1600,1600>>,
    <<1611,1631>>, <<1648,1648>>, <<1750,1757>>, <<1759,1768>>,
    <<1770,1773>>, <<1807,1807>>, <<1809,1809>>, <<1840,1866>>,
    <<1958,1968>>, <<2027,2037>>, <<2042,2042>>, <<2045,2045>>,
    <<2070,2093>>, <<2137,2139>>, <<2184,2184>>, <<2192,2193>>,
    <<2200,2207>>, <<2249,2306>>, <<2362,2362>>, <<2364,2364>>,
    <<2369,2376>>, <<2381,2381>>, <<2385,2391>>, <<2402,2403>>,
    <<2417,2417>>, <<2433,2433>>, <<2492,2492>>, <<2497,2500>>,
    <<2509,2509>>, <<2530,2531>>, <<2558,2558>>, <<2561,2562>>,
    <<2620,2620>>, <<2625,2626>>, <<2631,2632>>, <<2635,2637>>,
    <<2641,2641>>, <<2672,2673>>, <<2677,2677>>, <<2689,2690>>,
    <<2748,2748>>, <<2753,2757>>, <<2759,2760>>, <<2765,2765>>,
    <<2786,2787>>, <<2810,2815>>, <<2817,2817>>, <<2876,2876>>,
    <<2879,2879>>, <<2881,2884>>, <<2893,2893>>, <<2901,2902>>,
    <<2914,2915>>, <<2946,2946>>, <<3008,3008>>, <<3021,3021>>,
    <<3072,3072>>, <<3076,3076>>, <<3132,3132>>, <<3134,3136>>,
    <<3142,3144>>, <<3146,3149>>, <<3157,3158>>, <<3170,3171>>,
    <<3201,3201>>, <<3260,3260>>, <<3263,3263>>, <<3270,3270>>,
    <<3276,3277>>, <<3298,3299>>, <<3328,3329>>, <<3387,3388>>,
    <<3393,3396>>, <<3405,3405>>, <<3426,3427>>, <<3457,3457>>,
    <<3530,3530>>, <<3538,3540>>, <<3542,3542>>, <<3633,3633>>,
    <<3636,3642>>, <<3654,3662>>, <<3761,3761>>, <<3764,3772>>,
    <<3782,3782>>, <<3784,3789>>, <<3864,3865>>, <<3893,3893>>,
    <<3895,3895>>, <<3897,3897>>, <<3953,3966>>, <<3968,3972>>,
    <<3974,3975>>, <<3981,3991>>, <<3993,4028>>, <<4038,4038>>,
    <<4141,4144>>, <<4146,4151>>, <<4153,4154>>, <<4157,4158>>,
    <<4184,4185>>, <<4190,4192>>, <<4209,4212>>, <<4226,4226>>,
    <<4229,4230>>, <<4237,4237>>, <<4253,4253>>, <<4348,4348>>,
    <<4957,4959>>, <<5906,5908>>, <<5938,5939>>, <<5970,5971>>,
    <<6002,6003>>, <<6068,6069>>, <<6071,6077>>, <<6086,6086>>,
    <<6089,6099>>, <<6103,6103>>, <<6109,6109>>, <<6155,6159>>,
    <<6211,6211>>, <<6277,6278>>, <<6313,6313>>, <<6432,6434>>,
    <<6439,6440>>, <<6450,6450>>, <<6457,6459>>, <<6679,6680>>,
    <<6683,6683>>, <<6742,6742>>, <<6744,6750>>, <<6752,6752>>,
    <<6754,6754>>, <<6757,6764>>, <<6771,6780>>, <<6783,6783>>,
    <<6823,6823>>, <<6832,6862>>, <<6912,6915>>, <<6964,6964>>,
    <<6966,6970>>, <<6972,6972>>, <<6978,6978>>, <<7019,7027>>,
    <<7040,7041>>, <<7074,7077>>, <<7080,7081>>, <<7083,7085>>,
    <<7142,7142>>, <<7144,7145>>, <<7149,7149>>, <<7151,7153>>,
    <<7212,7219>>, <<7222,7223>>, <<7288,7293>>, <<7376,7378>>,
    <<7380,7392>>, <<7394,7400>>, <<7405,7405>>, <<7412,7412>>,
    <<7416,7417>>, <<7468,7530>>, <<7544,7544>>, <<7579,7679>>,
    <<8125,8125>>, <<8127,8129>>, <<8141,8143>>, <<8157,8159>>,
    <<8173,8175>>, <<8189,8190>>, <<8203,8207>>, <<8216,8217>>,
    <<8228,8228>>, <<8231,8231>>, <<8234,8238>>, <<8288,8292>>,
    <<8294,8303>>, <<8305,8305>>, <<8319,8319>>, <<8336,8348>>,
    <<8400,8432>>, <<11388,11389>>, <<11503,11505>>, <<11631,11631>>,
    <<11647,11647>>, <<11744,11775>>, <<11823,11823>>, <<12293,12293>>,
    <<12330,12333>>, <<12337,12341>>, <<12347,12347>>, <<12441,12446>>,
    <<12540,12542>>, <<40981,40981>>, <<42232,42237>>, <<42508,42508>>,
    <<42607,42610>>, <<42612,42621>>, <<42623,42623>>, <<42652,42655>>,
    <<42736,42737>>, <<42752,42785>>, <<42864,42864>>, <<42888,42890>>,
    <<42994,42996>>, <<43000,43001>>, <<43010,43010>>, <<43014,43014>>,
    <<43019,43019>>, <<43045,43046>>, <<43052,43052>>, <<43204,43205>>,
    <<43232,43249>>, <<43263,43263>>, <<43302,43309>>, <<43335,43345>>,
    <<43392,43394>>, <<43443,43443>>, <<43446,43449>>, <<43452,43453>>,
    <<43471,43471>>, <<43493,43494>>, <<43561,43566>>, <<43569,43570>>,
    <<43573,43574>>, <<43587,43587>>, <<43596,43596>>, <<43632,43632>>,
    <<43644,43644>>, <<43696,43696>>, <<43698,43700>>, <<43703,43704>>,
    <<43710,43711>>, <<43713,43713>>, <<43741,43741>>, <<43756,43757>>,
    <<43763,43764>>, <<43766,43766>>, <<43867,43871>>, <<43881,43883>>,
    <<44005,44005>>, <<44008,44008>>, <<44013,44013>>, <<64286,64286>>,
    <<64434,64450>>, <<65024,65039>>, <<65043,65043>>, <<65056,65071>>,
    <<65106,65106>>, <<65109,65109>>, <<65279,65279>>, <<65287,65287>>,
    <<65294,65294>>, <<65306,65306>>, <<65342,65342>>, <<65344,65344>>,
    <<65392,65392>>, <<65438,65439>>, <<65507,65507>>, <<65529,65531>>,
    <<66045,66045>>, <<66272,66272>>, <<66422,66426>>, <<67456,67461>>,
    <<67463,67504>>, <<67506,67514>>, <<68097,68099>>, <<68101,68102>>,
    <<68108,68111>>, <<68152,68154>>, <<68159,68159>>, <<68325,68326>>,
    <<68900,68903>>, <<69291,69292>>, <<69446,69456>>, <<69506,69509>>,
    <<69633,69633>>, <<69688,69702>>, <<69744,69744>>, <<69747,69748>>,
    <<69759,69761>>, <<69811,69814>>, <<69817,69818>>, <<69821,69821>>,
    <<69826,69826>>, <<69837,69837>>, <<69888,69890>>, <<69927,69931>>,
    <<69933,69940>>, <<70003,70003>>, <<70016,70017>>, <<70070,70078>>,
    <<70089,70092>>, <<70095,70095>>, <<70191,70193>>, <<70196,70196>>,
    <<70198,70199>>, <<70206,70206>>, <<70367,70367>>, <<70371,70378>>,
    <<70400,70401>>, <<70459,70460>>, <<70464,70464>>, <<70502,70508>>,
    <<70512,70516>>, <<70712,70719>>, <<70722,70724>>, <<70726,70726>>,
    <<70750,70750>>, <<70835,70840>>, <<70842,70842>>, <<70847,70848>>,
    <<70850,70851>>, <<71090,71093>>, <<71100,71101>>, <<71103,71104>>,
    <<71132,71133>>, <<71219,71226>>, <<71229,71229>>, <<71231,71232>>,
    <<71339,71339>>, <<71341,71341>>, <<71344,71349>>, <<71351,71351>>,
    <<71453,71455>>, <<71458,71461>>, <<71463,71467>>, <<71727,71735>>,
    <<71737,71738>>, <<71995,71996>>, <<71998,71998>>, <<72003,72003>>,
    <<72148,72151>>, <<72154,72155>>, <<72160,72160>>, <<72193,72202>>,
    <<72243,72248>>, <<72251,72254>>, <<72263,72263>>, <<72273,72278>>,
    <<72281,72283>>, <<72330,72342>>, <<72344,72345>>, <<72752,72758>>,
    <<72760,72765>>, <<72767,72767>>, <<72850,72871>>, <<72874,72880>>,
    <<72882,72883>>, <<72885,72886>>, <<73009,73014>>, <<73018,73018>>,
    <<73020,73021>>, <<73023,73029>>, <<73031,73031>>, <<73104,73105>>,
    <<73109,73109>>, <<73111,73111>>, <<73459,73460>>, <<78896,78904>>,
    <<92912,92916>>, <<92976,92982>>, <<92992,92995>>, <<94031,94031>>,
    <<94095,94111>>, <<94176,94177>>, <<94179,94180>>, <<110576,110579>>,
    <<110581,110587>>, <<110589,110590>>, <<113821,113822>>,
    <<113824,113827>>, <<118528,118573>>, <<118576,118598>>,
    <<119143,119145>>, <<119155,119170>>, <<119173,119179>>,
    <<119210,119213>>, <<119362,119364>>, <<121344,121398>>,
    <<121403,121452>>, <<121461,121461>>, <<121476,121476>>,
    <<121499,121503>>, <<121505,121519>>, <<122880,122886>>,
    <<122888,122904>>, <<122907,122913>>, <<122915,122916>>,
    <<122918,122922>>, <<123184,123197>>, <<123566,123566>>,
    <<123628,123631>>, <<125136,125142>>, <<125252,125259>>,
    <<127995,127999>>, <<917505,917505>>, <<917536,917631>>,
    <<917760,917999>> }

IsCaseIgnorable(c) == InRanges(c, CaseIgnorableRanges)

\* a run <<first, last, step, delta>> maps first, first + step, ..., last
\* each to itself plus delta
InRun(c, r) == r[1] <= c /\ c <= r[2] /\ (c - r[1]) % r[3] = 0

MapByRuns(c, runs) ==
    IF \E r \in runs : InRun(c, r)
    THEN c + (CHOOSE r \in runs : InRun(c, r))[4]
    ELSE c

\* lower-case mapping of the characters it changes into one character
LowerRuns ==
  { <<65,90,1,32>>, <<192,214,1,32>>, <<216,222,1,32>>, <<256,302,2,1>>,
    <<306,310,2,1>>, <<313,327,2,1>>, <<330,374,2,1>>, <<376,376,1,-121>>,
    <<377,381,2,1>>, <<385,385,1,210>>, <<386,388,2,1>>, <<390,390,1,206>>,
    <<391,391,1,1>>, <<393,394,1,205>>, <<395,395,1,1>>, <<398,398,1,79>>,
    <<399,399,1,202>>, <<400,400,1,203>>, <<401,401,1,1>>,
    <<403,403,1,205>>, <<404,404,1,207>>, <<406,406,1,211>>,
    <<407,407,1,209>>, <<408,408,1,1>>, <<412,412,1,211>>,
    <<413,413,1,213>>, <<415,415,1,214>>, <<416,420,2,1>>,
    <<422,422,1,218>>, <<423,423,1,1>>, <<425,425,1,218>>, <<428,428,1,1>>,
    <<430,430,1,218>>, <<431,431,1,1>>, <<433,434,1,217>>, <<435,437,2,1>>,
    <<439,439,1,219>>, <<440,440,1,1>>, <<444,444,1,1>>, <<452,452,1,2>>,
    <<453,453,1,1>>, <<455,455,1,2>>, <<456,456,1,1>>, <<458,458,1,2>>,
    <<459,475,2,1>>, <<478,494,2,1>>, <<497,497,1,2>>, <<498,500,2,1>>,
    <<502,502,1,-97>>, <<503,503,1,-56>>, <<504,542,2,1>>,
    <<544,544,1,-130>>, <<546,562,2,1>>, <<570,570,1,10795>>,
    <<571,571,1,1>>, <<573,573,1,-163>>, <<574,574,1,10792>>,
    <<577,577,1,1>>, <<579,579,1,-195>>, <<580,580,1,69>>,
    <<581,581,1,71>>, <<582,590,2,1>>, <<880,882,2,1>>, <<886,886,1,1>>,
    <<895,895,1,116>>, <<902,902,1,38>>, <<904,906,1,37>>,
    <<908,908,1,64>>, <<910,911,1,63>>, <<913,929,1,32>>, <<932,939,1,32>>,
    <<975,975,1,8>>, <<984,1006,2,1>>, <<1012,1012,1,-60>>,
    <<1015,1015,1,1>>, <<1017,1017,1,-7>>, <<1018,1018,1,1>>,
    <<1021,1023,1,-130>>, <<1024,1039,1,80>>, <<1040,1071,1,32>>,
    <<1120,1152,2,1>>, <<1162,1214,2,1>>, <<1216,1216,1,15>>,
    <<1217,1229,2,1>>, <<1232,1326,2,1>>, <<1329,1366,1,48>>,
    <<4256,4293,1,7264>>, <<4295,4295,1,7264>>, <<4301,4301,1,7264>>,
    <<5024,5103,1,38864>>, <<5104,5109,1,8>>, <<7312,7354,1,-3008>>,
    <<7357,7359,1,-3008>>, <<7680,7828,2,1>>, <<7838,7838,1,-7615>>,
    <<7840,7934,2,1>>, <<7944,7951,1,-8>>, <<7960,7965,1,-8>>,
    <<7976,7983,1,-8>>, <<7992,7999,1,-8>>, <<8008,8013,1,-8>>,
    <<8025,8031,2,-8>>, <<8040,8047,1,-8>>, <<8072,8079,1,-8>>,
    <<8088,8095,1,-8>>, <<8104,8111,1,-8>>, <<8120,8121,1,-8>>,
    <<8122,8123,1,-74>>, <<8124,8124,1,-9>>, <<8136,8139,1,-86>>,
    <<8140,8140,1,-9>>, <<8152,8153,1,-8>>, <<8154,8155,1,-100>>,
    <<8168,8169,1,-8>>, <<8170,8171,1,-112>>, <<8172,8172,1,-7>>,
    <<8184,8185,1,-128>>, <<8186,8187,1,-126>>, <<8188,8188,1,-9>>,
    <<8486,8486,1,-7517>>, <<8490,8490,1,-8383>>, <<8491,8491,1,-8262>>,
    <<8498,8498,1,28>>, <<8544,8559,1,16>>, <<8579,8579,1,1>>,
    <<9398,9423,1,26>>, <<11264,11311,1,48>>, <<11360,11360,1,1>>,
    <<11362,11362,1,-10743>>, <<11363,11363,1,-3814>>,
    <<11364,11364,1,-10727>>, <<11367,11371,2,1>>,
    <<11373,11373,1,-10780>>, <<11374,11374,1,-10749>>,
    <<11375,11375,1,-10783>>, <<11376,11376,1,-10782>>,
    <<11378,11378,1,1>>, <<11381,11381,1,1>>, <<11390,11391,1,-10815>>,
    <<11392,11490,2,1>>, <<11499,11501,2,1>>, <<11506,11506,1,1>>,
    <<42560,42604,2,1>>, <<42624,42650,2,1>>, <<42786,42798,2,1>>,
    <<42802,42862,2,1>>, <<42873,42875,2,1>>, <<42877,42877,1,-35332>>,
    <<42878,42886,2,1>>, <<42891,42891,1,1>>, <<42893,42893,1,-42280>>,
    <<42896,42898,2,1>>, <<42902,42920,2,1>>, <<42922,42922,1,-42308>>,
    <<42923,42923,1,-42319>>, <<42924,42924,1,-42315>>,
    <<42925,42925,1,-42305>>, <<42926,42926,1,-42308>>,
    <<42928,42928,1,-42258>>, <<42929,42929,1,-42282>>,
    <<42930,42930,1,-42261>>, <<42931,42931,1,928>>, <<42932,42946,2,1>>,
    <<42948,42948,1,-48>>, <<42949,42949,1,-42307>>,
    <<42950,42950,1,-35384>>, <<42951,42953,2,1>>, <<42960,42960,1,1>>,
    <<42966,42968,2,1>>, <<42997,42997,1,1>>, <<65313,65338,1,32>>,
    <<66560,66599,1,40>>, <<66736,66771,1,40>>, <<66928,66938,1,39>>,
    <<66940,66954,1,39>>, <<66956,66962,1,39>>, <<66964,66965,1,39>>,
    <<68736,68786,1,64>>, <<71840,71871,1,32>>, <<93760,93791,1,32>>,
    <<125184,125217,1,34>> }

\* lower-case mapping into several characters
LowerSpecial ==
  { <<304,<<105,775>>>> }

\* title-case mapping of the characters it changes into one character
TitleRuns ==
  { <<97,122,1,-32>>, <<181,181,1,743>>, <<224,246,1,-32>>,
    <<248,254,1,-32>>, <<255,255,1,121>>, <<257,303,2,-1>>,
    <<305,305,1,-232>>, <<307,311,2,-1>>, <<314,328,2,-1>>,
    <<331,375,2,-1>>, <<378,382,2,-1>>, <<383,383,1,-300>>,
    <<384,384,1,195>>, <<387,389,2,-1>>, <<392,392,1,-1>>,
    <<396,396,1,-1>>, <<402,402,1,-1>>, <<405,405,1,97>>, <<409,409,1,-1>>,
    <<410,410,1,163>>, <<414,414,1,130>>, <<417,421,2,-1>>,
    <<424,424,1,-1>>, <<429,429,1,-1>>, <<432,432,1,-1>>, <<436,438,2,-1>>,
    <<441,441,1,-1>>, <<445,445,1,-1>>, <<447,447,1,56>>, <<452,452,1,1>>,
    <<454,454,1,-1>>, <<455,455,1,1>>, <<457,457,1,-1>>, <<458,458,1,1>>,
    <<460,476,2,-1>>, <<477,477,1,-79>>, <<479,495,2,-1>>, <<497,497,1,1>>,
    <<499,501,2,-1>>, <<505,543,2,-1>>, <<547,563,2,-1>>, <<572,572,1,-1>>,
    <<575,576,1,10815>>, <<578,578,1,-1>>, <<583,591,2,-1>>,
    <<592,592,1,10783>>, <<593,593,1,10780>>, <<594,594,1,10782>>,
    <<595,595,1,-210>>, <<596,596,1,-206>>, <<598,599,1,-205>>,
    <<601,601,1,-202>>, <<603,603,1,-203>>, <<604,604,1,42319>>,
    <<608,608,1,-205>>, <<609,609,1,42315>>, <<611,611,1,-207>>,
    <<613,613,1,42280>>, <<614,614,1,42308>>, <<616,616,1,-209>>,
    <<617,617,1,-211>>, <<618,618,1,42308>>, <<619,619,1,10743>>,
    <<620,620,1,42305>>, <<623,623,1,-211>>, <<625,625,1,10749>>,
    <<626,626,1,-213>>, <<629,629,1,-214>>, <<637,637,1,10727>>,
    <<640,640,1,-218>>, <<642,642,1,42307>>, <<643,643,1,-218>>,
    <<647,647,1,42282>>, <<648,648,1,-218>>, <<649,649,1,-69>>,
    <<650,651,1,-217>>, <<652,652,1,-71>>, <<658,658,1,-219>>,
    <<669,669,1,42261>>, <<670,670,1,42258>>, <<837,837,1,84>>,
    <<881,883,2,-1>>, <<887,887,1,-1>>, <<891,893,1,130>>,
    <<940,940,1,-38>>, <<941,943,1,-37>>, <<945,961,1,-32>>,
    <<962,962,1,-31>>, <<963,971,1,-32>>, <<972,972,1,-64>>,
    <<973,974,1,-63>>, <<976,976,1,-62>>, <<977,977,1,-57>>,
    <<981,981,1,-47>>, <<982,982,1,-54>>, <<983,983,1,-8>>,
    <<985,1007,2,-1>>, <<1008,1008,1,-86>>, <<1009,1009,1,-80>>,
    <<1010,1010,1,7>>, <<1011,1011,1,-116>>, <<1013,1013,1,-96>>,
    <<1016,1016,1,-1>>, <<1019,1019,1,-1>>, <<1072,1103,1,-32>>,
    <<1104,1119,1,-80>>, <<1121,1153,2,-1>>, <<1163,1215,2,-1>>,
    <<1218,1230,2,-1>>, <<1231,1231,1,-15>>, <<1233,1327,2,-1>>,
    <<1377,1414,1,-48>>, <<5112,5117,1,-8>>, <<7296,7296,1,-6254>>,
    <<7297,7297,1,-6253>>, <<7298,7298,1,-6244>>, <<7299,7300,1,-6242>>,
    <<7301,7301,1,-6243>>, <<7302,7302,1,-6236>>, <<7303,7303,1,-6181>>,
    <<7304,7304,1,35266>>, <<7545,7545,1,35332>>, <<7549,7549,1,3814>>,
    <<7566,7566,1,35384>>, <<7681,7829,2,-1>>, <<7835,7835,1,-59>>,
    <<7841,7935,2,-1>>, <<7936,7943,1,8>>, <<7952,7957,1,8>>,
    <<7968,7975,1,8>>, <<7984,7991,1,8>>, <<8000,8005,1,8>>,
    <<8017,8023,2,8>>, <<8032,8039,1,8>>, <<8048,8049,1,74>>,
    <<8050,8053,1,86>>, <<8054,8055,1,100>>, <<8056,8057,1,128>>,
    <<8058,8059,1,112>>, <<8060,8061,1,126>>, <<8064,8071,1,8>>,
    <<8080,8087,1,8>>, <<8096,8103,1,8>>, <<8112,8113,1,8>>,
    <<8115,8115,1,9>>, <<8126,8126,1,-7205>>, <<8131,8131,1,9>>,
    <<8144,8145,1,8>>, <<8160,8161,1,8>>, <<8165,8165,1,7>>,
    <<8179,8179,1,9>>, <<8526,8526,1,-28>>, <<8560,8575,1,-16>>,
    <<8580,8580,1,-1>>, <<9424,9449,1,-26>>, <<11312,11359,1,-48>>,
    <<11361,11361,1,-1>>, <<11365,11365,1,-10795>>,
    <<11366,11366,1,-10792>>, <<11368,11372,2,-1>>, <<11379,11379,1,-1>>,
    <<11382,11382,1,-1>>, <<11393,11491,2,-1>>, <<11500,11502,2,-1>>,
    <<11507,11507,1,-1>>, <<11520,11557,1,-7264>>, <<11559,11559,1,-7264>>,
    <<11565,11565,1,-7264>>, <<42561,42605,2,-1>>, <<42625,42651,2,-1>>,
    <<42787,42799,2,-1>>, <<42803,42863,2,-1>>, <<42874,42876,2,-1>>,
    <<42879,42887,2,-1>>, <<42892,42892,1,-1>>, <<42897,42899,2,-1>>,
    <<42900,42900,1,48>>, <<42903,42921,2,-1>>, <<42933,42947,2,-1>>,
    <<42952,42954,2,-1>>, <<42961,42961,1,-1>>, <<42967,42969,2,-1>>,
    <<42998,42998,1,-1>>, <<43859,43859,1,-928>>, <<43888,43967,1,-38864>>,
    <<65345,65370,1,-32>>, <<66600,66639,1,-40>>, <<66776,66811,1,-40>>,
    <<66967,66977,1,-39>>, <<66979,66993,1,-39>>, <<66995,67001,1,-39>>,
    <<67003,67004,1,-39>>, <<68800,68850,1,-64>>, <<71872,71903,1,-32>>,
    <<93792,93823,1,-32>>, <<125218,125251,1,-34>> }

\* title-case mapping into several characters
TitleSpecial ==
  { <<223,<<83,115>>>>, <<329,<<700,78>>>>, <<496,<<74,780>>>>,
    <<912,<<921,776,769>>>>, <<944,<<933,776,769>>>>,
    <<1415,<<1333,1410>>>>, <<7830,<<72,817>>>>, <<7831,<<84,776>>>>,
    <<7832,<<87,778>>>>, <<7833,<<89,778>>>>, <<7834,<<65,702>>>>,
    <<8016,<<933,787>>>>, <<8018,<<933,787,768>>>>,
    <<8020,<<933,787,769>>>>, <<8022,<<933,787,834>>>>,
    <<8114,<<8122,837>>>>, <<8116,<<902,837>>>>, <<8118,<<913,834>>>>,
    <<8119,<<913,834,837>>>>, <<8130,<<8138,837>>>>, <<8132,<<905,837>>>>,
    <<8134,<<919,834>>>>, <<8135,<<919,834,837>>>>,
    <<8146,<<921,776,768>>>>, <<8147,<<921,776,769>>>>,
    <<8150,<<921,834>>>>, <<8151,<<921,776,834>>>>,
    <<8162,<<933,776,768>>>>, <<8163,<<933,776,769>>>>,
    <<8164,<<929,787>>>>, <<8166,<<933,834>>>>, <<8167,<<933,776,834>>>>,
    <<8178,<<8186,837>>>>, <<8180,<<911,837>>>>, <<8182,<<937,834>>>>,
    <<8183,<<937,834,837>>>>, <<64256,<<70,102>>>>, <<64257,<<70,105>>>>,
    <<64258,<<70,108>>>>, <<64259,<<70,102,105>>>>,
    <<64260,<<70,102,108>>>>, <<64261,<<83,116>>>>, <<64262,<<83,116>>>>,
    <<64275,<<1348,1398>>>>, <<64276,<<1348,1381>>>>,
    <<64277,<<1348,1387>>>>, <<64278,<<1358,1398>>>>,
    <<64279,<<1348,1389>>>> }

MapFull(c, special, runs) ==
    IF \E p \in special : p[1] = c
    THEN (CHOOSE p \in special : p[1] = c)[2]
    ELSE <<MapByRuns(c, runs)>>

ToLowerFull(c) == MapFull(c, LowerSpecial, LowerRuns)
ToTitleFull(c) == MapFull(c, TitleSpecial, TitleRuns)

CapitalSigma == 931
FinalSmallSigma == 962
SmallSigma == 963

\* a capital sigma is final when a cased character precedes it and none
\* follows it, case-ignorable characters not counting
FinalSigma(s, i) ==
    LET before == {j \in 1..(i - 1) : ~IsCaseIgnorable(s[j])}
        after == {j \in (i + 1)..Len(s) : ~IsCaseIgnorable(s[j])}
    IN /\ before # {}
       /\ IsCased(s[CHOOSE j \in before : \A k \in before : k <= j])
       /\ \/ after = {}
          \/ ~IsCased(s[CHOOSE j \in after : \A k \in after : j <= k])

\* the lower case of the character at position i of s
LowerAt(s, i) ==
    IF s[i] = CapitalSigma
    THEN (IF FinalSigma(s, i) THEN <<FinalSmallSigma>> ELSE <<SmallSigma>>)
    ELSE ToLowerFull(s[i])

RECURSIVE Flatten(_)
Flatten(parts) ==
    IF parts = <<>> THEN <<>> ELSE Head(parts) \o Flatten(Tail(parts))

\* str.lower()
Lower(s) == Flatten([i \in 1..Len(s) |-> LowerAt(s, i)])

\* str.title(): a character is lower-cased when it follows a cased one and
\* title-cased otherwise.
Title(s) ==
    Flatten([i \in 1..Len(s) |->
                IF i > 1 /\ IsCased(s[i - 1]) THEN LowerAt(s, i)
                ELSE ToTitleFull(s[i])])

\* str.strip()
RECURSIVE LStrip(_)
LStrip(s) ==
    IF s # <<>> /\ IsSpace(Head(s)) THEN LStrip(Tail(s)) ELSE s

RECURSIVE RStrip(_)
RStrip(s) ==
    IF s # <<>> /\ IsSpace(s[Len(s)]) THEN RStrip(SubSeq(s, 1, Len(s) - 1))
    ELSE s

Strip(s) == RStrip(LStrip(s))

\* str.split(sep): scans left to right, cutting a piece at every separator;
\* the last piece is always emitted, so "".split(sep) is [""].
RECURSIVE SplitFrom(_, _, _, _, _)
SplitFrom(s, sep, i, cur, acc) ==
    IF i > Len(s) THEN Append(acc, cur)
    ELSE IF s[i] = sep THEN SplitFrom(s, sep, i + 1, <<>>, Append(acc, cur))
    ELSE SplitFrom(s, sep, i + 1, Append(cur, s[i]), acc)

Split(s, sep) == SplitFrom(s, sep, 1, <<>>, <<>>)

\* str.split() without a separator: runs of whitespace separate the words and
\* no empty word is produced.  A word starts at every non-blank character
\* that follows a blank or begins the text, and runs to the next blank.
RECURSIVE WordStarts(_, _, _)
WordStarts(s, lo, hi) ==
    IF lo > hi THEN <<>>
    ELSE IF lo = hi
         THEN (IF ~IsSpace(s[lo]) /\ (lo = 1 \/ IsSpace(s[lo - 1]))
               THEN <<lo>> ELSE <<>>)
    ELSE LET mid == (lo + hi) \div 2
         IN WordStarts(s, lo, mid) \o WordStarts(s, mid + 1, hi)

RECURSIVE WordEnd(_, _)
WordEnd(s, i) ==
    IF i < Len(s) /\ ~IsSpace(s[i + 1]) THEN WordEnd(s, i + 1) ELSE i

SplitWs(s) ==
    LET starts == WordStarts(s, 1, Len(s))
    IN [n \in 1..Len(starts) |-> SubSeq(s, starts[n], WordEnd(s, starts[n]))]

\* needle in haystack
Contains(s, needle) ==
    \E i \in 1..(Len(s) - Len(needle) + 1) :
        SubSeq(s, i, i + Len(needle) - 1) = needle

----------------------------------------------------------------------------
(* Numbers: a decimal [num, exp] is worth num / 10^exp, with no trailing   *)
(* zero among its exp fraction digits.  Python's int 10 and float 10.0     *)
(* compare equal and are the same decimal.  float() of a numeral of up to  *)
(* nine digits, eight of them after the dot, is that decimal.              *)

RECURSIVE Pow10(_)
Pow10(n) == IF n = 0 THEN 1 ELSE 10 * Pow10(n - 1)

RECURSIVE Dec(_, _)
Dec(num, exp) ==
    IF exp > 0 /\ num % 10 = 0 THEN Dec(num \div 10, exp - 1)
    ELSE [num |-> num, exp |-> exp]

\* a < b
DecLess(a, b) == a.num * Pow10(b.exp) < b.num * Pow10(a.exp)

RECURSIVE IntOf(_)
IntOf(ds) ==
    IF ds = <<>> THEN 0
    ELSE 10 * IntOf(SubSeq(ds, 1, Len(ds) - 1)) + DigitVal(ds[Len(ds)])

\* float(m) for m of the shape digits [ "." digits ]
Float(m) ==
    LET dot == IF \E i \in 1..Len(m) : m[i] = Ord(".")
               THEN CHOOSE i \in 1..Len(m) : m[i] = Ord(".")
               ELSE Len(m) + 1
        whole == SubSeq(m, 1, dot - 1)
        frac == SubSeq(m, dot + 1, Len(m))
    IN Dec(IntOf(whole \o frac), Len(frac))

\* Python's min(a, b) and max(a, b): the first argument wins a tie
PyMin(a, b) == IF DecLess(b, a) THEN b ELSE a
PyMax(a, b) == IF DecLess(a, b) THEN b ELSE a

----------------------------------------------------------------------------
(* re.search of the pattern  digits, optional dot, optional digits:        *)
(* the leftmost match starts at the first digit; the first group of digits *)
(* takes the whole run, then a dot if one follows, then the digits after   *)
(* it.  None is the empty sequence, a match is a one-element sequence      *)
(* holding group(1).                                                       *)

RECURSIVE DigitRunEnd(_, _)
DigitRunEnd(s, i) ==
    IF i <= Len(s) /\ s[i] \in Digits THEN DigitRunEnd(s, i + 1) ELSE i

RECURSIVE FirstDigitFrom(_, _)
FirstDigitFrom(s, i) ==
    IF i > Len(s) THEN 0
    ELSE IF s[i] \in Digits THEN i
    ELSE FirstDigitFrom(s, i + 1)

ReSearchNumber(s) ==
    LET start == FirstDigitFrom(s, 1)
        e1 == DigitRunEnd(s, start)
        e2 == IF e1 <= Len(s) /\ s[e1] = Ord(".") THEN e1 + 1 ELSE e1
        e3 == DigitRunEnd(s, e2)
    IN IF start = 0 THEN <<>> ELSE <<SubSeq(s, start, e3 - 1)>>

\* _parse_score without the clamp to [1, 10]
ParseScoreNoClamp(score_str) ==
    LET match == ReSearchNumber(score_str)
    IN IF match # <<>> THEN Float(match[1]) ELSE Dec(FallbackScore, 0)

\* ResumeAnalyzer._parse_score
_parse_score(score_str) ==
    LET match == ReSearchNumber(score_str)
    IN PyMin(Dec(ScoreMax, 0),
             IF match # <<>> THEN PyMax(Dec(ScoreMin, 0), Float(match[1]))
             ELSE Dec(FallbackScore, 0))

\* AdvancedMovieReviewer._parse_rating
_parse_rating(rating_str) ==
    LET match == ReSearchNumber(rating_str)
    IN PyMin(Dec(ScoreMax, 0),
             IF match # <<>> THEN PyMax(Dec(RatingMin, 0), Float(match[1]))
             ELSE Dec(FallbackScore, 0))

----------------------------------------------------------------------------
(* List helpers *)

RECURSIVE SelectStripped(_)
\* [item.strip() for item in pieces if item.strip()]
SelectStripped(pieces) ==
    IF pieces = <<>> THEN <<>>
    ELSE LET item == Strip(Head(pieces))
         IN IF item # <<>> THEN <<item>> \o SelectStripped(Tail(pieces))
            ELSE SelectStripped(Tail(pieces))

Bullet(item) == Str(<<"-", " ">>) \o item

BulletAll(items) == [i \in 1..Len(items) |-> Bullet(items[i])]

\* _format_list that tests item.strip() but keeps the untrimmed item
RECURSIVE SelectUnstripped(_)
SelectUnstripped(pieces) ==
    IF pieces = <<>> THEN <<>>
    ELSE IF Strip(Head(pieces)) # <<>>
         THEN <<Head(pieces)>> \o SelectUnstripped(Tail(pieces))
    ELSE SelectUnstripped(Tail(pieces))

ResumeFormatListNoStrip(items) == BulletAll(SelectUnstripped(Split(items, Ord(";"))))

\* ResumeAnalyzer._format_list: items.split(";")
Resume_format_list(items) == BulletAll(SelectStripped(Split(items, Ord(";"))))

\* AdvancedMovieReviewer._format_list: items.split(",")
Movie_format_list(items) == BulletAll(SelectStripped(Split(items, Ord(","))))

\* AdvancedMovieReviewer._format_genres
_format_genres(genres) ==
    LET gs == SelectStripped(Split(genres, Ord(",")))
    IN [i \in 1..Len(gs) |-> Title(gs[i])]

\* n black stars (U+2605) followed by 5 - n white stars (U+2606)
Stars(n) == [i \in 1..5 |-> IF i <= n THEN 9733 ELSE 9734]

\* AdvancedMovieReviewer._rate_quality
_rate_quality(text) ==
    LET t == Lower(text)
    IN IF Contains(t, Str(<<"e","x","c","e","l","l","e","n","t">>)) THEN Stars(5)
       ELSE IF Contains(t, Str(<<"g","o","o","d">>)) THEN Stars(4)
       ELSE IF Contains(t, Str(<<"a","v","e","r","a","g","e">>)) THEN Stars(3)
       ELSE IF Contains(t, Str(<<"p","o","o","r">>)) THEN Stars(2)
       ELSE Stars(3)

----------------------------------------------------------------------------
(* dict: a sequence of [key, val] records in insertion order.  Assigning   *)
(* to a key already present replaces its value in place.                   *)

DictKeys(d) == {d[i].key : i \in 1..Len(d)}

DictGet(d, k) == d[CHOOSE i \in 1..Len(d) : d[i].key = k].val

DictSet(d, k, v) ==
    IF k \in DictKeys(d)
    THEN [i \in 1..Len(d) |-> IF d[i].key = k THEN [key |-> k, val |-> v] ELSE d[i]]
    ELSE Append(d, [key |-> k, val |-> v])

----------------------------------------------------------------------------
(* The oracle: the responses a predictor may give *)

RECURSIVE SeqsUpTo(_, _)
SeqsUpTo(S, n) ==
    IF n = 0 THEN {<<>>}
    ELSE LET shorter == SeqsUpTo(S, n - 1)
         IN shorter \cup {Append(s, c) : s \in shorter, c \in S}

SectionAlphabet == {Ord("S"), Ord("E"), Ord(","), Ord(" ")}

\* section_identifier: resume_text -> sections
IdentifierResponses ==
    {[sections |-> t] : t \in SeqsUpTo(SectionAlphabet, MaxSecLen)}

\* content_evaluator: section, text -> analysis, score
EvaluatorResponses ==
    { [analysis |-> Str(<<"o", "k">>), score |-> Str(<<"8", "/", "1", "0">>)],
      [analysis |-> <<>>, score |-> Str(<<"n", "o">>)] }

\* overall_assessor: resume_text -> summary, strengths, weaknesses,
\* recommendations
AssessorResponses ==
    { [summary |-> Str(<<"o", "k">>),
       strengths |-> Str(<<"a", ";", " ", "b">>),
       weaknesses |-> Str(<<"c">>),
       recommendations |-> Str(<<"d", ";", "d">>)],
      [summary |-> <<>>, strengths |-> <<>>, weaknesses |-> <<>>,
       recommendations |-> Str(<<" ", ";">>)] }

\* analysis: review -> plot_summary, character_analysis, directing_quality,
\* cinematography, technical_aspects, cultural_impact, rating
AnalysisResponses ==
    { [plot_summary |-> Str(<<"p">>), character_analysis |-> Str(<<"c">>),
       directing_quality |-> Str(<<"E","x","c","e","l","l","e","n","t",","," ","g","o","o","d">>),
       cinematography |-> Str(<<"P","O","O","R">>),
       technical_aspects |-> Str(<<"A","v","e","r","a","g","e">>),
       cultural_impact |-> Str(<<"i">>),
       rating |-> Str(<<"1", "1">>)],
      [plot_summary |-> <<>>, character_analysis |-> <<>>,
       directing_quality |-> Str(<<"G","o","o","d">>),
       cinematography |-> <<>>,
       technical_aspects |-> Str(<<"o","k">>),
       cultural_impact |-> <<>>,
       rating |-> Str(<<"n", "o">>)] }

\* genre_classifier: review -> genres
GenreResponses ==
    { [genres |-> Str(<<"s","c","i","-","f","i",","," ","D","R","A","M","A">>)],
      [genres |-> <<>>] }

\* recommender: review -> similar_movies, recommendations
RecommenderResponses ==
    { [similar_movies |-> Str(<<"a", ",", "b">>), recommendations |-> Str(<<"a", ",", " ", "a">>)],
      [similar_movies |-> <<>>, recommendations |-> Str(<<",">>)] }

\* one predictor call as a test double records it
Call(sig, inputs, ok, out) == [sig |-> sig, inputs |-> inputs, ok |-> ok, out |-> out]

----------------------------------------------------------------------------
(* The documents submitted: n one-letter words separated by single blanks, *)
(* and a document of whitespace only (space, carriage return, line feed,   *)
(* no-break space, em space).                                              *)

DocOf(n) == [i \in 1..(2 * n - 1) |-> IF i % 2 = 1 THEN Ord("w") ELSE Ord(" ")]

Docs == {DocOf(n) : n \in {0, 30, MinWords - 1, MinWords}} \cup {<<32, 13, 10, 160, 8195>>}

NormOff ==
    /\ nfun = "none"
    /\ ntext = <<>>
    /\ nstate = "off"
    /\ nscore = Dec(0, 0)
    /\ nlist = <<>>

Init ==
    /\ app \in {"resume", "movie"}
    /\ doc \in Docs
    /\ pc = "main"
    /\ calls = <<>>
    /\ section_list = <<>>
    /\ idx = 0
    /\ section_analyses = <<>>
    /\ m_locals = <<>>
    /\ result = <<>>
    /\ ui = <<>>
    /\ NormOff

----------------------------------------------------------------------------
(* ResumeAnalyzer.py *)

\* main counting characters instead of words
ResumeInputOkByChars(resume_text) == ~(Len(resume_text) < MinWords)

\* main: the test that lets a resume through to the analyzer
ResumeInputOk(resume_text) == ~(Len(SplitWs(resume_text)) < MinWords)

\* main, on "Analyze Resume"
ResumeMain ==
    /\ pc = "main" /\ app = "resume"
    /\ IF ResumeInputOk(doc)
       THEN pc' = "identify" /\ ui' = ui
       ELSE pc' = "rejected" /\ ui' = Append(ui, "warning")
    /\ UNCHANGED <<app, doc, calls, section_list, idx, section_analyses,
                   m_locals, result, normVars>>

\* forward's except clause letting the exception out
ResumeExceptReraise ==
    /\ pc' = "raised"
    /\ ui' = ui
    /\ result' = result

\* forward: except Exception -> st.error, return {}
ResumeExcept ==
    /\ pc' = "returned"
    /\ ui' = Append(ui, "error")
    /\ result' = <<>>

\* forward: section_list
SectionList(sections) == SelectStripped(Split(sections, Ord(",")))

\* forward: the section_identifier call and the list built from it
IdentifySections ==
    /\ pc = "identify"
    /\ LET inputs == <<<<"resume_text", doc>>>>
       IN \/ /\ calls' = Append(calls, Call("section_identifier", inputs, FALSE, <<>>))
             /\ ResumeExcept
             /\ UNCHANGED <<section_list, idx, section_analyses>>
          \/ \E r \in IdentifierResponses :
                /\ calls' = Append(calls, Call("section_identifier", inputs, TRUE, r))
                /\ section_list' = SectionList(r.sections)
                /\ section_analyses' = <<>>
                /\ idx' = 0
                /\ pc' = "loop"
                /\ UNCHANGED <<result, ui>>
    /\ UNCHANGED <<app, doc, m_locals, normVars>>

\* the loop taking the sections last to first
CurrentSectionReversed(list, i) == list[Len(list) - i]

\* forward: for section in section_list, after i iterations
CurrentSection(list, i) == list[i + 1]

\* forward: one iteration of the loop over section_list
EvaluateSection ==
    /\ pc = "loop" /\ idx < Len(section_list)
    /\ LET section == CurrentSection(section_list, idx)
           inputs == <<<<"section", section>>, <<"text", doc>>>>
       IN \/ /\ calls' = Append(calls, Call("content_evaluator", inputs, FALSE, <<>>))
             /\ ResumeExcept
             /\ UNCHANGED <<idx, section_analyses>>
          \/ \E r \in EvaluatorResponses :
                /\ calls' = Append(calls, Call("content_evaluator", inputs, TRUE, r))
                /\ section_analyses' =
                      DictSet(section_analyses, section,
                              [analysis |-> r.analysis, score |-> _parse_score(r.score)])
                /\ idx' = idx + 1
                /\ UNCHANGED <<pc, result, ui>>
    /\ UNCHANGED <<app, doc, section_list, m_locals, normVars>>

\* forward: the overall_assessor call and the return
AssessOverall ==
    /\ pc = "loop" /\ idx = Len(section_list)
    /\ LET inputs == <<<<"resume_text", doc>>>>
       IN \/ /\ calls' = Append(calls, Call("overall_assessor", inputs, FALSE, <<>>))
             /\ ResumeExcept
          \/ \E overall \in AssessorResponses :
                /\ calls' = Append(calls, Call("overall_assessor", inputs, TRUE, overall))
                /\ result' =
                      [sections |-> section_list,
                       section_analyses |-> section_analyses,
                       overall_summary |-> overall.summary,
                       strengths |-> Resume_format_list(overall.strengths),
                       weaknesses |-> Resume_format_list(overall.weaknesses),
                       recommendations |-> Resume_format_list(overall.recommendations)]
                /\ pc' = "returned"
                /\ ui' = ui
    /\ UNCHANGED <<app, doc, section_list, idx, section_analyses, m_locals, normVars>>

\* main: display_results(result, analysis_mode) reads result with .get and
\* a default, so it renders {} as well; main's except clause is not reached
ResumeDisplayResults ==
    /\ pc = "returned" /\ app = "resume"
    /\ pc' = "displayed"
    /\ UNCHANGED <<app, doc, calls, section_list, idx, section_analyses,
                   m_locals, result, ui, normVars>>

----------------------------------------------------------------------------
(* movieReviewandRecommendation.py *)

\* main: the test that lets a review through to the analyzer
MovieInputOk(review) == Strip(review) # <<>>

\* main, on "Analyze Review"
MovieMain ==
    /\ pc = "main" /\ app = "movie"
    /\ IF MovieInputOk(doc)
       THEN pc' = "analysis" /\ ui' = ui
       ELSE pc' = "rejected" /\ ui' = Append(ui, "warning")
    /\ UNCHANGED <<app, doc, calls, section_list, idx, section_analyses,
                   m_locals, result, normVars>>

\* forward: except Exception -> st.error, return {}
MovieExcept ==
    /\ pc' = "returned"
    /\ ui' = Append(ui, "error")
    /\ result' = <<>>

\* forward: analysis = self.analysis(review=review)
MovieAnalysis ==
    /\ pc = "analysis"
    /\ LET inputs == <<<<"review", doc>>>>
       IN \/ /\ calls' = Append(calls, Call("analysis", inputs, FALSE, <<>>))
             /\ MovieExcept
             /\ UNCHANGED m_locals
          \/ \E r \in AnalysisResponses :
                /\ calls' = Append(calls, Call("analysis", inputs, TRUE, r))
                /\ m_locals' = <<r>>
                /\ pc' = "genres"
                /\ UNCHANGED <<result, ui>>
    /\ UNCHANGED <<app, doc, section_list, idx, section_analyses, normVars>>

\* forward: genres = self.genre_classifier(review=review)
MovieGenres ==
    /\ pc = "genres"
    /\ LET inputs == <<<<"review", doc>>>>
       IN \/ /\ calls' = Append(calls, Call("genre_classifier", inputs, FALSE, <<>>))
             /\ MovieExcept
             /\ UNCHANGED m_locals
          \/ \E r \in GenreResponses :
                /\ calls' = Append(calls, Call("genre_classifier", inputs, TRUE, r))
                /\ m_locals' = Append(m_locals, r)
                /\ pc' = "recommend"
                /\ UNCHANGED <<result, ui>>
    /\ UNCHANGED <<app, doc, section_list, idx, section_analyses, normVars>>

\* forward: comparisons = self.recommender(review=review) and the return
MovieRecommend ==
    /\ pc = "recommend"
    /\ LET inputs == <<<<"review", doc>>>>
           analysis == m_locals[1]
           genres == m_locals[2]
       IN \/ /\ calls' = Append(calls, Call("recommender", inputs, FALSE, <<>>))
             /\ MovieExcept
          \/ \E comparisons \in RecommenderResponses :
                /\ calls' = Append(calls, Call("recommender", inputs, TRUE, comparisons))
                /\ result' =
                      [plot_summary |-> analysis.plot_summary,
                       character_analysis |-> analysis.character_analysis,
                       technical_review |->
                          [directing |-> _rate_quality(analysis.directing_quality),
                           cinematography |-> _rate_quality(analysis.cinematography),
                           technical_aspects |-> _rate_quality(analysis.technical_aspects)],
                       cultural_impact |-> analysis.cultural_impact,
                       rating |-> _parse_rating(analysis.rating),
                       genres |-> _format_genres(genres.genres),
                       similar_movies |-> Movie_format_list(comparisons.similar_movies),
                       recommendations |-> Movie_format_list(comparisons.recommendations)]
                /\ pc' = "returned"
                /\ ui' = ui
    /\ UNCHANGED <<app, doc, section_list, idx, section_analyses, m_locals, normVars>>

\* the keys display_results subscripts result with
MovieResultKeys ==
    {"rating", "genres", "recommendations", "similar_movies", "plot_summary",
     "character_analysis", "technical_review", "cultural_impact"}

\* display_results: result['rating'] and the subscripts after it raise
\* KeyError on a dict without the key
MovieDisplayRaises(res) == ~(MovieResultKeys \subseteq DOMAIN res)

\* main: display_results(result), and main's except clause reporting what
\* display_results raised with st.error
MovieDisplayResults ==
    /\ pc = "returned" /\ app = "movie"
    /\ ui' = IF MovieDisplayRaises(result) THEN Append(ui, "error") ELSE ui
    /\ pc' = "displayed"
    /\ UNCHANGED <<app, doc, calls, section_list, idx, section_analyses,
                   m_locals, result, normVars>>

Next ==
    \/ ResumeMain
    \/ IdentifySections
    \/ EvaluateSection
    \/ AssessOverall
    \/ ResumeDisplayResults
    \/ MovieMain
    \/ MovieAnalysis
    \/ MovieGenres
    \/ MovieRecommend
    \/ MovieDisplayResults

Spec == Init /\ [][Next]_vars

\* the interpreter keeps running the script while a statement remains
FairSpec == Spec /\ WF_vars(Next)

----------------------------------------------------------------------------
(* The normalisers applied to every text of a bounded alphabet *)

\* 1635 is ARABIC-INDIC DIGIT THREE, 160 is NO-BREAK SPACE
ScoreAlphabet == {Ord("0"), Ord("1"), Ord("8"), Ord("."), Ord("/"), 1635}
ListAlphabet == {Ord("a"), Ord("b"), Ord(";"), Ord(","), Ord(" "), 160}

ScoreTexts == SeqsUpTo(ScoreAlphabet, MaxScoreLen)
ListTexts == SeqsUpTo(ListAlphabet, MaxListLen)

OrchOff ==
    /\ app = "none"
    /\ doc = <<>>
    /\ pc = "off"
    /\ calls = <<>>
    /\ section_list = <<>>
    /\ idx = 0
    /\ section_analyses = <<>>
    /\ m_locals = <<>>
    /\ result = <<>>
    /\ ui = <<>>

InitNorm ==
    /\ OrchOff
    /\ nfun \in {"_parse_score", "_parse_rating",
                 "resume._format_list", "movie._format_list"}
    /\ ntext \in IF nfun \in {"_parse_score", "_parse_rating"}
                 THEN ScoreTexts ELSE ListTexts
    /\ nstate = "input"
    /\ nscore = Dec(0, 0)
    /\ nlist = <<>>

ApplyParseScore ==
    /\ nstate = "input" /\ nfun = "_parse_score"
    /\ nscore' = _parse_score(ntext)
    /\ nstate' = "done"
    /\ UNCHANGED <<orchVars, nfun, ntext, nlist>>

ApplyParseRating ==
    /\ nstate = "input" /\ nfun = "_parse_rating"
    /\ nscore' = _parse_rating(ntext)
    /\ nstate' = "done"
    /\ UNCHANGED <<orchVars, nfun, ntext, nlist>>

ApplyResumeFormatList ==
    /\ nstate = "input" /\ nfun = "resume._format_list"
    /\ nlist' = Resume_format_list(ntext)
    /\ nstate' = "done"
    /\ UNCHANGED <<orchVars, nfun, ntext, nscore>>

ApplyMovieFormatList ==
    /\ nstate = "input" /\ nfun = "movie._format_list"
    /\ nlist' = Movie_format_list(ntext)
    /\ nstate' = "done"
    /\ UNCHANGED <<orchVars, nfun, ntext, nscore>>

NextNorm ==
    \/ ApplyParseScore
    \/ ApplyParseRating
    \/ ApplyResumeFormatList
    \/ ApplyMovieFormatList

NormSpec == InitNorm /\ [][NextNorm]_vars

----------------------------------------------------------------------------
(* Score extraction, stated without the scan *)

HasDigit(t) == \E i \in 1..Len(t) : t[i] \in Digits

\* digits, then optionally a dot, then optionally digits
IsNumeral(m) ==
    /\ m # <<>>
    /\ m[1] \in Digits
    /\ \A i \in 1..Len(m) : m[i] \in Digits \cup {Ord(".")}
    /\ Cardinality({i \in 1..Len(m) : m[i] = Ord(".")}) <= 1

\* the longest numeral that starts at the first digit of t
FirstNumeral(t) ==
    LET i == CHOOSE k \in 1..Len(t) :
                 t[k] \in Digits /\ \A h \in 1..(k - 1) : t[h] \notin Digits
        j == CHOOSE k \in i..Len(t) :
                 /\ IsNumeral(SubSeq(t, i, k))
                 /\ \A h \in (k + 1)..Len(t) : ~IsNumeral(SubSeq(t, i, h))
    IN SubSeq(t, i, j)

Clamp(v, lo, hi) ==
    IF DecLess(v, lo) THEN lo ELSE IF DecLess(hi, v) THEN hi ELSE v

ScoreFloor(f) == IF f = "_parse_score" THEN ScoreMin ELSE RatingMin

\* C6: _parse_score (bounds [1,10]) and _parse_rating (bounds [0,10]) return
\* a value within the bounds: the first contiguous integer-or-decimal
\* substring of the text clamped to the bounds when the text has a digit
\* (so "8/10" gives 8), and the fallback 5.0 when it has none.
C6_ScoreWithinBounds ==
    (nstate = "done" /\ nfun \in {"_parse_score", "_parse_rating"}) =>
        LET lo == Dec(ScoreFloor(nfun), 0)
            hi == Dec(ScoreMax, 0)
        IN /\ ~DecLess(nscore, lo) /\ ~DecLess(hi, nscore)
           /\ HasDigit(ntext) =>
                  nscore = Clamp(Float(FirstNumeral(ntext)), lo, hi)
           /\ ~HasDigit(ntext) => nscore = Dec(FallbackScore, 0)
           /\ ntext = Str(<<"8", "/", "1", "0">>) => nscore = Dec(8, 0)

C6_Witness ==
    /\ nstate = "done" /\ nfun = "_parse_score"
    /\ ntext = Str(<<"8", "/", "1", "0">>)
    /\ nscore = Dec(8, 0)

----------------------------------------------------------------------------
(* List extraction, stated by the positions of the delimiters *)

DelimPos(t, d) == {i \in 1..Len(t) : t[i] = d}

\* position of the k-th delimiter; 0 before the first, Len(t)+1 after the last
KthDelim(t, d, k) ==
    IF k = 0 THEN 0
    ELSE IF k > Cardinality(DelimPos(t, d)) THEN Len(t) + 1
    ELSE CHOOSE i \in DelimPos(t, d) :
             Cardinality({j \in DelimPos(t, d) : j < i}) = k - 1

Piece(t, d, k) == SubSeq(t, KthDelim(t, d, k - 1) + 1, KthDelim(t, d, k) - 1)

Trimmed(p) ==
    LET ink == {i \in 1..Len(p) : ~IsSpace(p[i])}
    IN IF ink = {} THEN <<>>
       ELSE SubSeq(p, CHOOSE i \in ink : \A j \in ink : i <= j,
                      CHOOSE i \in ink : \A j \in ink : i >= j)

\* indices of the pieces that are not empty once trimmed
KeptPieces(t, d) ==
    {k \in 1..(Cardinality(DelimPos(t, d)) + 1) : Trimmed(Piece(t, d, k)) # <<>>}

\* the n-th kept piece, trimmed
KeptPiece(t, d, n) ==
    Trimmed(Piece(t, d, CHOOSE k \in KeptPieces(t, d) :
                            Cardinality({h \in KeptPieces(t, d) : h < k}) = n - 1))

ListDelimiter(f) == IF f = "resume._format_list" THEN Ord(";") ELSE Ord(",")

ListDone == nstate = "done" /\ nfun \in {"resume._format_list", "movie._format_list"}

\* C7 (as amended): _format_list returns the delimiter-separated pieces of
\* the text after trimming, empty pieces dropped, order kept and repeated
\* pieces retained, each prefixed with the bullet marker "- "; the empty
\* string yields the empty list.
C7_BulletedPieces ==
    ListDone =>
        LET d == ListDelimiter(nfun)
        IN /\ Len(nlist) = Cardinality(KeptPieces(ntext, d))
           /\ \A n \in 1..Len(nlist) :
                  nlist[n] = Str(<<"-", " ">>) \o KeptPiece(ntext, d, n)
           /\ ntext = <<>> => nlist = <<>>

\* a list with a repeated piece and a dropped empty piece
C7_Witness ==
    /\ nstate = "done" /\ nfun = "resume._format_list"
    /\ ntext = Str(<<"a", ";", ";", " ", "a">>)
    /\ nlist = <<Str(<<"-", " ", "a">>), Str(<<"-", " ", "a">>)>>

\* C7 (as claimed): each returned element equals the trimmed piece itself.
C7_BarePieces ==
    ListDone =>
        LET d == ListDelimiter(nfun)
        IN /\ Len(nlist) = Cardinality(KeptPieces(ntext, d))
           /\ \A n \in 1..Len(nlist) : nlist[n] = KeptPiece(ntext, d, n)

----------------------------------------------------------------------------
(* The orchestrators, stated over the log of predictor calls *)

\* the n-th element of a set of indices, in increasing order
NthOf(K, n) == CHOOSE k \in K : Cardinality({h \in K : h < k}) = n - 1

\* the trimmed, non-empty comma-separated names of a Stage1 output, in order
NamesOf(t) ==
    [n \in 1..Cardinality(KeptPieces(t, Ord(","))) |-> KeptPiece(t, Ord(","), n)]

\* the same names with every later duplicate discarded
FirstSeen(names) ==
    LET firsts == {n \in 1..Len(names) : \A h \in 1..(n - 1) : names[h] # names[n]}
    IN [n \in 1..Cardinality(firsts) |-> names[NthOf(firsts, n)]]

CallsOf(sig) == {i \in 1..Len(calls) : calls[i].sig = sig}
FailedCalls == {i \in 1..Len(calls) : ~calls[i].ok}

\* the unit a content_evaluator call was made for
UnitOf(i) == calls[i].inputs[1][2]

\* forward has returned: main holds its result, displayed or about to be
ForwardReturned == pc \in {"returned", "displayed"}
ResumeReturned == app = "resume" /\ ForwardReturned
Stage1Ok == calls # <<>> /\ calls[1].sig = "section_identifier" /\ calls[1].ok
Discovered == NamesOf(calls[1].out.sections)

HolisticKeys == {"overall_summary", "strengths", "weaknesses", "recommendations"}

\* keys of the returned evaluations; a result without the field has none
EvaluationKeys ==
    IF "section_analyses" \in DOMAIN result
    THEN DictKeys(result.section_analyses) ELSE {}

\* C1: if the Stage2 call fails for exactly one discovered unit, the other
\* units are still evaluated and the holistic stage still runs: evaluations
\* hold exactly the other units' results, units lists every discovered name
\* and the holistic fields are present.
C1_UnitFailureIsolated ==
    (/\ ResumeReturned /\ Stage1Ok
     /\ Cardinality(FailedCalls) = 1
     /\ FailedCalls \subseteq CallsOf("content_evaluator"))
    => /\ Cardinality(CallsOf("content_evaluator")) = Len(Discovered)
       /\ Cardinality(CallsOf("overall_assessor")) = 1
       /\ DOMAIN result # {}
       /\ result.sections = Discovered
       /\ EvaluationKeys =
             {UnitOf(i) : i \in CallsOf("content_evaluator") \ FailedCalls}
       /\ HolisticKeys \subseteq DOMAIN result

\* C2: a failed call omits only its own stage's contribution; the result is
\* entirely empty only if every stage failed (both forward methods).
C2_StageFailureIsolated ==
    ForwardReturned =>
        /\ DOMAIN result = {} => \A i \in 1..Len(calls) : ~calls[i].ok
        /\ \A i \in 1..Len(calls) : calls[i].ok =>
              CASE calls[i].sig = "section_identifier" -> "sections" \in DOMAIN result
                [] calls[i].sig = "content_evaluator" -> UnitOf(i) \in EvaluationKeys
                [] calls[i].sig = "overall_assessor" -> HolisticKeys \subseteq DOMAIN result
                [] calls[i].sig = "analysis" -> "plot_summary" \in DOMAIN result
                [] calls[i].sig = "genre_classifier" -> "genres" \in DOMAIN result
                [] calls[i].sig = "recommender" -> "recommendations" \in DOMAIN result

\* C3: the returned "sections" holds each trimmed, non-empty comma-separated
\* name of the Stage1 output exactly once, in first-seen order.
C3_UnitsDeduplicated ==
    (ResumeReturned /\ DOMAIN result # {}) =>
        result.sections = FirstSeen(Discovered)

\* C4: in every returned result the keys of the evaluations are exactly the
\* unit names whose Stage2 call succeeded, and name no unit outside units.
C4_EvaluationKeysAreSurvivors ==
    ResumeReturned =>
        /\ EvaluationKeys =
              {UnitOf(i) : i \in CallsOf("content_evaluator") \ FailedCalls}
        /\ Stage1Ok => EvaluationKeys \subseteq {Discovered[n] : n \in 1..Len(Discovered)}

\* number of whitespace-separated words of a text
WordCount(t) ==
    Cardinality({i \in 1..Len(t) :
                    ~IsSpace(t[i]) /\ (i = 1 \/ IsSpace(t[i - 1]))})

\* a document main turns away: fewer than 50 words for a resume, no word at
\* all for a review
Rejectable ==
    \/ app = "resume" /\ WordCount(doc) < MinWords
    \/ app = "movie" /\ WordCount(doc) = 0

\* C5 (as amended): a resume of fewer than 50 whitespace-separated words,
\* and a review with no word in it, is turned away by main and no predictor
\* call is ever issued for it.
C5_RejectedBeforeAnyCall ==
    Rejectable => calls = <<>> /\ pc \in {"main", "rejected"}

C5_Witness ==
    /\ app = "resume" /\ pc = "rejected"
    /\ WordCount(doc) = 30
    /\ calls = <<>>
    /\ ui = <<"warning">>

\* C5 (as claimed): at both entry points a document of fewer than 50 words
\* gets no predictor call.
C5_ShortDocumentNeverCalls ==
    WordCount(doc) < MinWords => calls = <<>>

InForward == pc \in {"identify", "loop", "analysis", "genres", "recommend"}

ResultIsDict ==
    \/ DOMAIN result = {}
    \/ app = "resume" /\ DOMAIN result = HolisticKeys \cup {"sections", "section_analyses"}
    \/ app = "movie" /\ DOMAIN result =
          {"plot_summary", "character_analysis", "technical_review",
           "cultural_impact", "rating", "genres", "similar_movies",
           "recommendations"}

\* C8: whatever calls fail and whatever the fields hold, forward (of either
\* class) never lets an exception out: once entered it terminates, returning
\* a dict, at worst the empty one.
C8_ForwardAlwaysReturns ==
    /\ [](pc # "raised")
    /\ InForward ~> (pc = "returned" /\ ResultIsDict)

\* forward returned {} after a call in the middle of the loop failed
C8_Witness ==
    /\ ResumeReturned
    /\ DOMAIN result = {}
    /\ Len(calls) = 3 /\ calls[1].ok /\ calls[2].ok /\ ~calls[3].ok
    /\ ui = <<"error">>

\* what a call asked for
Request(c) == <<c.sig, c.inputs>>

\* the calls of a run without failure, given the list of units
ExpectedRequests(units) ==
    <<<<"section_identifier", <<<<"resume_text", doc>>>>>>>>
    \o [i \in 1..Len(units) |->
           <<"content_evaluator", <<<<"section", units[i]>>, <<"text", doc>>>>>>]
    \o <<<<"overall_assessor", <<<<"resume_text", doc>>>>>>>>

\* C9: without oracle failure ResumeAnalyzer.forward calls the structure
\* predictor once, then the per-unit predictor once per element of units in
\* the order of units, then the holistic predictor once, 1 + |units| + 1
\* calls in all; with no unit there is no per-unit call and still a holistic
\* one, whose only input is the whole document.
C9_CallOrder ==
    (app = "resume" /\ FailedCalls = {} /\ calls # <<>>) =>
        /\ Len(calls) <= Len(section_list) + 2
        /\ \A i \in 1..Len(calls) :
              Request(calls[i]) = ExpectedRequests(section_list)[i]
        /\ ForwardReturned =>
              /\ [i \in 1..Len(calls) |-> Request(calls[i])]
                    = ExpectedRequests(result.sections)
              /\ Len(calls) = 1 + Len(result.sections) + 1
              /\ Request(calls[Len(calls)])
                    = <<"overall_assessor", <<<<"resume_text", doc>>>>>>

\* a run over two different units, and no failure
C9_Witness ==
    /\ ResumeReturned /\ FailedCalls = {}
    /\ Len(calls) = 4
    /\ UnitOf(2) = Str(<<"S">>) /\ UnitOf(3) = Str(<<"E">>)

\* C10: once an evaluation is stored under a unit name, no later step of
\* the invocation overwrites or changes it.
C10_EvaluationNeverOverwritten ==
    [][\A k \in DictKeys(section_analyses) :
          /\ k \in DictKeys(section_analyses')
          /\ DictGet(section_analyses', k) = DictGet(section_analyses, k)]_vars

====
